---- MODULE Spec2Model ----
(***************************************************************************)
(* pm-tracker: hourly Up/Down market tracker.                              *)
(*                                                                         *)
(* The model follows the TypeScript sources.  JavaScript runs one          *)
(* continuation at a time, so an action is the code between two awaits:    *)
(* the arrival of a data-source answer, the rest of the loop body, and     *)
(* the following iterations up to the next data-source request.            *)
(*                                                                         *)
(* Time is in minutes since a top of the hour; the program starts at half *)
(* past.  Prices are in hundredths (0.9 is 90).                            *)
(***************************************************************************)
EXTENDS Integers, Sequences, FiniteSets, TLC

VARIABLES
    now,        \* the wall clock, minutes
    markets,    \* the rows of table markets
    nextId,     \* the next fresh uuid; 1..nextId-1 have been handed out
    disc,       \* discoverNewMarkets invocations in progress
    res,        \* checkResolutions invocations in progress
    out,        \* updateMarketOutcomes invocations in progress
    settled,    \* slugs the venue has settled Up for good
    listed,     \* the assets the venue lists markets of
    main,       \* how far index.ts main() has come
    log,        \* warn and error lines written by the last step
    snapshots,  \* the rows of table snapshots
    snap,       \* snapshot fetches in progress
    rt,         \* a call of PolymarketService.retry
    sl          \* a use of the slug utilities

vars == <<now, markets, nextId, disc, res, out, settled, listed, main, log,
          snapshots, snap, rt, sl>>

Null == "null"

----------------------------------------------------------------------------
(* Bounds of the model *)

\* The clock stops after MaxTicks ticks; MaxId uuids are handed out at most.
MaxTicks == 1
MaxId == 2

\* The invocations of one job that may be in progress at once: node-cron
\* fires a job whether or not its last invocation has returned.
DiscRuns == {"d1", "d2"}
ResRuns == {"r1", "r2"}
OutRuns == {"o1"}

----------------------------------------------------------------------------
(* config *)

ASSETS == <<"BTC", "ETH", "SOL">>

slugPrefix(asset) ==
    CASE asset = "BTC" -> "bitcoin-up-or-down"
      [] asset = "ETH" -> "ethereum-up-or-down"
      [] asset = "SOL" -> "solana-up-or-down"

HourMinutes == 60

\* The clock moves in steps of half an hour.
TickMinutes == HourMinutes \div 2

----------------------------------------------------------------------------
(* utils/slug *)

MONTHS ==
    <<"january", "february", "march", "april", "may", "june",
      "july", "august", "september", "october", "november", "december">>

\* The days of the year before the first of month m.
DaysBefore == <<0, 31, 59, 90, 120, 151, 181, 212, 243, 273, 304, 334>>

\* MONTHS.indexOf(name), from 1; 0 for -1.
monthIndex(name) ==
    IF \E m \in 1..12 : MONTHS[m] = name
    THEN CHOOSE m \in 1..12 : MONTHS[m] = name
    ELSE 0

\* The civil date and hour in America/New_York of instant 0.
StartET == [month |-> "november", day |-> 4, hour |-> 22]

\* The minutes from January 1, 00:00 UTC to instant 0 (November 5, 03:00
\* UTC).
YearStart ==
    ((DaysBefore[monthIndex(StartET.month)] + StartET.day - 1) * 24
        + StartET.hour + 5) * HourMinutes

\* Date.UTC(year, m - 1, day, hour), as an instant of the model; days and
\* hours beyond the month and the day run on into the next.
DateUTC(m, day, hour) ==
    ((DaysBefore[m] + day - 1) * 24 + hour) * HourMinutes - YearStart

\* Daylight saving time began on March 8, 2026 at 07:00 UTC and ended on
\* November 1, 2026 at 06:00 UTC, 93 hours before instant 0.
SpringForward == DateUTC(3, 8, 7)
FallBack == DateUTC(11, 1, 6)

\* The minutes America/New_York is behind UTC at instant t.
etOffset(t) ==
    IF SpringForward <= t /\ t < FallBack THEN 4 * HourMinutes ELSE 5 * HourMinutes

\* The month day `day` of the year is in, January 1 being day 0.
monthOfDay(day) ==
    IF day < 181
    THEN IF day < 90
         THEN IF day < 31 THEN 1 ELSE IF day < 59 THEN 2 ELSE 3
         ELSE IF day < 120 THEN 4 ELSE IF day < 151 THEN 5 ELSE 6
    ELSE IF day < 273
         THEN IF day < 212 THEN 7 ELSE IF day < 243 THEN 8 ELSE 9
         ELSE IF day < 304 THEN 10 ELSE IF day < 334 THEN 11 ELSE 12

\* The month, the day and the hour (0..23) of instant t in America/New_York.
etWall(t) ==
    CHOOSE w \in {[month |-> monthOfDay(hours \div 24),
                   day   |-> hours \div 24 - DaysBefore[monthOfDay(hours \div 24)] + 1,
                   hour  |-> hours % 24] :
                        hours \in {(t + YearStart - etOffset(t)) \div HourMinutes}} : TRUE

\* w is bound to the value of etWall(t), worked out once.
getETComponents(t) ==
    CHOOSE c \in {[month |-> MONTHS[w.month],
                   day   |-> w.day,
                   hour  |-> IF w.hour % 12 = 0 THEN 12 ELSE w.hour % 12,
                   ampm  |-> IF w.hour < 12 THEN "am" ELSE "pm"] : w \in {etWall(t)}} : TRUE

generateMarketSlug(assetPrefix, t) ==
    LET c == getETComponents(t)
    IN  <<assetPrefix, c.month, c.day, c.hour, c.ampm, "et">>

\* setMinutes(0, 0, 0)
currentHour(t) == t - (t % HourMinutes)

\* The upcoming slugs were they to begin with the hour after the current.
targetDateNextHour(h, i) == h + i * HourMinutes

\* The instant of the i-th upcoming slug, i from 1.
targetDate(h, i) == h + (i - 1) * HourMinutes

\* The time zones the process may run in: the clock of the third is half
\* an hour off the hours of the other two.
Zones == {"UTC", "America/New_York", "Asia/Kolkata"}

\* setMinutes(0, 0, 0) sets the minutes of the local time of the process.
currentHourIn(zone, t) ==
    IF zone = "Asia/Kolkata"
    THEN currentHour(t + HourMinutes \div 2) - HourMinutes \div 2
    ELSE currentHour(t)

generateUpcomingMarketSlugsIn(zone, assetPrefix, hoursAhead, t) ==
    [i \in 1..hoursAhead |->
        generateMarketSlug(assetPrefix, targetDate(currentHourIn(zone, t), i))]

\* In a process whose zone is UTC.
generateUpcomingMarketSlugs(assetPrefix, hoursAhead, t) ==
    generateUpcomingMarketSlugsIn("UTC", assetPrefix, hoursAhead, t)

\* new Date(string) of a wall clock without a zone: the instant that shows
\* this wall clock in the zone of the process; the earlier one where two
\* do, and the wall clock read with the offset before the change where none
\* does.
localDate(zone, m, day, hour) ==
    IF zone = "UTC" THEN DateUTC(m, day, hour)
    ELSE IF zone = "Asia/Kolkata"
    THEN DateUTC(m, day, hour) - 5 * HourMinutes - HourMinutes \div 2
    ELSE IF /\ SpringForward <= DateUTC(m, day, hour) + 4 * HourMinutes
            /\ DateUTC(m, day, hour) + 4 * HourMinutes < FallBack
    THEN DateUTC(m, day, hour) + 4 * HourMinutes
    ELSE DateUTC(m, day, hour) + 5 * HourMinutes

\* The words of the model that [a-z]+ matches.
LowerCaseWords == {MONTHS[m] : m \in 1..12} \cup {"nov", "brumaire"}

\* slug.match(/^.+-([a-z]+)-(\d+)-(\d+)(am|pm)-et$/): a slug is the tuple of
\* its parts, the day and the hour as the numbers their digits give.
slugMatch(slug) ==
    /\ Len(slug) = 6
    /\ slug[2] \in LowerCaseWords
    /\ slug[5] \in {"am", "pm"}
    /\ slug[6] = "et"

\* The 12-hour clock were 12 o'clock left as it is.
slugHourTwelveAsIs(hour, ampm) ==
    IF ampm = "pm" /\ hour # 12 THEN hour + 12 ELSE hour

\* if (ampm === 'pm' && hour !== 12) hour += 12;
\* if (ampm === 'am' && hour === 12) hour = 0;
slugHour(hour, ampm) ==
    IF ampm = "pm" /\ hour # 12 THEN hour + 12
    ELSE IF ampm = "am" /\ hour = 12 THEN 0
    ELSE hour

\* The instant a slug names, or null (<<>>), in a process of the given zone.
parseSlugDate(slug, zone) ==
    IF ~slugMatch(slug) THEN <<>>
    ELSE IF monthIndex(slug[2]) = 0 THEN <<>>
    ELSE LET hour == slugHour(slug[4], slug[5])
             utcDate == DateUTC(monthIndex(slug[2]), slug[3], hour)
             w == etWall(utcDate)
             etTime == localDate(zone, w.month, w.day, w.hour)
             offset == utcDate - etTime
         IN  <<utcDate + offset>>

\* A use of the slug utilities: the input, and what they made of it.
IdleSlug == [pc |-> "idle", zone |-> "UTC", prefix |-> "", t |-> 0, n |-> 0,
             slug |-> <<>>, hour |-> <<>>, back |-> <<>>, slugs |-> <<>>]

\* generateMarketSlug(prefix, date), then parseSlugDate of the slug.
SlugRoundTrip ==
    /\ sl.pc = "input"
    /\ sl' = [sl EXCEPT !.pc = "decoded",
                        !.slug = generateMarketSlug(sl.prefix, sl.t),
                        !.back = parseSlugDate(generateMarketSlug(sl.prefix, sl.t), sl.zone)]
    /\ UNCHANGED <<now, markets, nextId, disc, res, out, settled, listed, main, log,
                   snapshots, snap, rt>>

\* parseSlugDate of a slug from elsewhere; hour is its local variable once
\* the slug has matched and its month is known.
SlugDecode ==
    /\ sl.pc = "slug"
    /\ sl' = [sl EXCEPT !.pc = "parsed",
                        !.hour = IF slugMatch(sl.slug) /\ monthIndex(sl.slug[2]) # 0
                                 THEN <<slugHour(sl.slug[4], sl.slug[5])>>
                                 ELSE <<>>,
                        !.back = parseSlugDate(sl.slug, sl.zone)]
    /\ UNCHANGED <<now, markets, nextId, disc, res, out, settled, listed, main, log,
                   snapshots, snap, rt>>

\* generateUpcomingMarketSlugs(prefix, n) at instant sl.t.
SlugUpcoming ==
    /\ sl.pc = "input"
    /\ sl' = [sl EXCEPT !.pc = "listed",
                        !.slugs = generateUpcomingMarketSlugsIn(sl.zone, sl.prefix,
                                                               sl.n, sl.t)]
    /\ UNCHANGED <<now, markets, nextId, disc, res, out, settled, listed, main, log,
                   snapshots, snap, rt>>

----------------------------------------------------------------------------
(* The venue (Gamma API) *)

\* The last instant of the clock.
LastInstant == (MaxTicks + 1) * TickMinutes

HourStarts == {h * HourMinutes : h \in 0..(LastInstant \div HourMinutes + 1)}

\* The top of the hour a slug names.
VenueHour(slug) == CHOOSE t \in HourStarts : generateMarketSlug(slug[1], t) = slug

TokenLists ==
    {[ok |-> FALSE, ids |-> <<>>],
     [ok |-> TRUE, ids |-> <<>>],
     [ok |-> TRUE, ids |-> <<"up">>],
     [ok |-> TRUE, ids |-> <<"up", "down">>]}

PriceLists ==
    {[ok |-> FALSE, p |-> <<>>],
     [ok |-> TRUE, p |-> <<95, 5>>],
     [ok |-> TRUE, p |-> <<5, 95>>],
     [ok |-> TRUE, p |-> <<50, 50>>],
     [ok |-> TRUE, p |-> <<90, 10>>],
     [ok |-> TRUE, p |-> <<95, 95>>]}

\* The JSON bodies the venue may answer a slug with.  The times are minutes
\* after the top of the hour the slug names; a field that may be missing is
\* a sequence of length 0 or 1.  The venue gives each slug a condition id of
\* its own.  Sound is the record of an open hourly market as the venue
\* publishes it.
Sound ==
    [hasConditionId |-> TRUE,
     eventStartTime |-> <<0>>,
     startDate      |-> 0 - HourMinutes,
     endDate        |-> HourMinutes,
     clobTokenIds   |-> [ok |-> TRUE, ids |-> <<"up", "down">>],
     closed         |-> FALSE,
     outcomePrices  |-> [ok |-> TRUE, p |-> <<50, 50>>],
     lastTradePrice |-> <<51>>,
     volume24hr     |-> <<1000>>]

\* An open market nobody has traded yet.
Untraded == [Sound EXCEPT !.lastTradePrice = <<>>, !.volume24hr = <<>>]

\* Open markets: what a discovery reads varies, one field at a time.
Listing ==
    {Sound,
     [Sound EXCEPT !.hasConditionId = FALSE],
     [Sound EXCEPT !.endDate = TickMinutes],
     [Sound EXCEPT !.outcomePrices = [ok |-> TRUE, p |-> <<95, 5>>]]}
        \cup {[Sound EXCEPT !.clobTokenIds = t] : t \in TokenLists}

\* Closed markets: what a resolution reads varies.
Closing ==
    {[Sound EXCEPT !.closed = TRUE, !.outcomePrices = p] : p \in PriceLists}

Bodies == Listing \cup Closing

SettledUp ==
    {b \in Closing : b.closed /\ b.outcomePrices = [ok |-> TRUE, p |-> <<95, 5>>]}

\* Every outcome of a call of /markets/slug/<slug>.
Answers ==
    {[kind |-> "throw"], [kind |-> "404"]}
        \cup {[kind |-> "body", raw |-> b] : b \in Bodies}

\* What a call of /markets/slug/<slug> may come to: "throw" (every attempt
\* failed: no answer, a status that is not ok, a body that is no JSON), a
\* 404, or a body.
Fetch(slug) ==
    IF slug \in settled
    THEN {[kind |-> "body", raw |-> b] : b \in SettledUp}
    ELSE {[kind |-> "throw"], [kind |-> "404"]}
         \cup {[kind |-> "body", raw |-> b] :
                    b \in IF \E a \in listed : slugPrefix(a) = slug[1]
                          THEN Bodies ELSE {}}

----------------------------------------------------------------------------
(* The process *)

\* A process that outlives process.exit(0).
aliveAfterExit(m) == TRUE

\* The event loop runs the continuation of an await only while the process
\* is there: after process.exit(0) nothing of it runs.
alive(m) == m # "exited"

----------------------------------------------------------------------------
(* services/polymarket *)

MAX_RETRIES == 3

\* The calls retry wraps, what fn may resolve to (null: a 404), and what it
\* may throw.
RetryLabels == {"getMarketBySlug", "getPrices", "getMidpoint", "getOrderBook"}
RetryValues == {Null, "first", "second"}
RetryErrors == {"network", "http"}

\* A call of retry(fn, label): in iteration i of its loop, the attempts and
\* delays so far, and what it has returned, if it has.
IdleRetry == [pc |-> "idle", label |-> "", i |-> 0, events |-> <<>>, result |-> <<>>]

\* The catch of retry were it to wait after every failure.
retryCatchAlwaysDelay(i) == TRUE

\* if (i < MAX_RETRIES - 1): wait before the next attempt.
retryCatch(i) == i < MAX_RETRIES - 1

\* i++ and the test of the loop: on with attempt i, or fall out of the loop
\* and return null.
retryLoop(call, i) ==
    IF i < MAX_RETRIES
    THEN [call EXCEPT !.pc = "try", !.i = i]
    ELSE [call EXCEPT !.pc = "returned", !.i = i, !.result = <<Null>>]

RetryCall(label) ==
    /\ rt.pc = "idle"
    /\ rt' = retryLoop([IdleRetry EXCEPT !.label = label], 0)
    /\ log' = <<>>
    /\ UNCHANGED <<now, markets, nextId, disc, res, out, settled, listed, main,
                   snapshots, snap, sl>>

\* await fn() resolves.
RetryResolve(v) ==
    /\ rt.pc = "try"
    /\ rt' = [rt EXCEPT !.pc = "returned",
                        !.events = Append(rt.events, <<"ok", v>>),
                        !.result = <<v>>]
    /\ log' = <<>>
    /\ UNCHANGED <<now, markets, nextId, disc, res, out, settled, listed, main,
                   snapshots, snap, sl>>

\* await fn() throws: the catch, up to the delay or to the next attempt.
RetryThrow(e) ==
    /\ rt.pc = "try"
    /\ LET caught == [rt EXCEPT !.events = Append(rt.events, <<"throw", e>>)]
       IN  /\ rt' = IF retryCatch(rt.i)
                    THEN [caught EXCEPT !.pc = "delay"]
                    ELSE retryLoop(caught, rt.i + 1)
           /\ log' = <<<<"warn", "attempt failed">>>>
                     \o (IF rt'.pc = "returned"
                         THEN <<<<"error", "failed after MAX_RETRIES attempts">>>>
                         ELSE <<>>)
    /\ UNCHANGED <<now, markets, nextId, disc, res, out, settled, listed, main,
                   snapshots, snap, sl>>

\* setTimeout(r, RETRY_DELAY_MS) fires.
RetryDelay ==
    /\ rt.pc = "delay"
    /\ rt' = retryLoop([rt EXCEPT !.events = Append(rt.events, <<"delay", "">>)], rt.i + 1)
    /\ log' = IF rt'.pc = "returned"
              THEN <<<<"error", "failed after MAX_RETRIES attempts">>>>
              ELSE <<>>
    /\ UNCHANGED <<now, markets, nextId, disc, res, out, settled, listed, main,
                   snapshots, snap, sl>>

\* The caller has the result.
RetryReturn ==
    /\ rt.pc = "returned"
    /\ rt' = IdleRetry
    /\ log' = <<>>
    /\ UNCHANGED <<now, markets, nextId, disc, res, out, settled, listed, main,
                   snapshots, snap, sl>>

\* Number(x) || 0
numberOrZero(x) == IF x = <<>> THEN 0 ELSE x[1]

parseGammaMarket(slug, raw) ==
    [conditionId    |-> IF raw.hasConditionId THEN <<"condition", slug>> ELSE <<>>,
     slug           |-> slug,
     endDate        |-> VenueHour(slug) + raw.endDate,
     eventStartTime |-> VenueHour(slug) +
                        (IF raw.eventStartTime # <<>>
                         THEN raw.eventStartTime[1] ELSE raw.startDate),
     closed         |-> raw.closed,
     clobTokenIds   |-> raw.clobTokenIds,
     outcomePrices  |-> raw.outcomePrices,
     lastTradePrice |-> numberOrZero(raw.lastTradePrice),
     volume24hr     |-> numberOrZero(raw.volume24hr)]

\* retry(fn) around the fetch of getMarketBySlug: null after MAX_RETRIES
\* failed attempts or a 404, else the parsed body.  The attempts and the
\* delays between them touch nothing but the log, so the call is one step.
polyGetMarketBySlug(slug, f) ==
    IF f.kind = "throw"
    THEN [kind |-> "null", lines |-> <<<<"error", "failed after MAX_RETRIES attempts">>>>]
    ELSE IF f.kind = "404"
    THEN [kind |-> "null", lines |-> <<>>]
    ELSE [kind |-> "gm", gm |-> parseGammaMarket(slug, f.raw), lines |-> <<>>]

----------------------------------------------------------------------------
(* services/storage *)

\* A store that does not enforce REFERENCES markets(id).
upsertThrowsNoForeignKey(rows, snaps, market) == market.conditionId = <<>>

\* condition_id TEXT UNIQUE NOT NULL: a row without one is refused.
\* snapshots.market_id REFERENCES markets(id), foreign keys being enforced by
\* the driver: the statement fails when the row REPLACE has to delete, the
\* row of another id with this condition_id, is referred to by a snapshot.
upsertThrows(rows, snaps, market) ==
    \/ market.conditionId = <<>>
    \/ \E m \in rows : /\ m.id # market.id
                        /\ m.conditionId = market.conditionId
                        /\ \E s \in snaps : s.marketId = m.id

\* A store whose only key is the primary key: what upsertMarket would be
\* without UNIQUE on condition_id.
upsertMarketByIdOnly(rows, market) ==
    {m \in rows : m.id # market.id} \cup {market}

\* INSERT OR REPLACE: the rows in conflict on the primary key or on the
\* unique condition_id are deleted, then the row is inserted.
upsertMarket(rows, market) ==
    {m \in rows : m.id # market.id /\ m.conditionId # market.conditionId}
        \cup {market}

getMarketBySlug(rows, slug) == {m \in rows : m.slug = slug}

\* A store that calls a market active from its start on, without end.
getActiveMarketsNoEnd(rows, t) ==
    {m \in rows : m.outcome = Null /\ m.eventStartTime <= t}

getActiveMarkets(rows, t) ==
    {m \in rows : /\ m.outcome = Null
                  /\ m.eventStartTime <= t
                  /\ m.eventStartTime + HourMinutes > t}

\* UPDATE markets SET outcome = ?, updated_at = ? WHERE id = ?
updateMarketOutcome(rows, id, outcome, t) ==
    {IF m.id = id THEN [m EXCEPT !.outcome = outcome, !.updatedAt = t] ELSE m
        : m \in rows}

\* Rows in the order of their rowid, which is the order of insertion.
RECURSIVE InRowOrder(_)
InRowOrder(rows) ==
    IF rows = {} THEN <<>>
    ELSE LET first == CHOOSE m \in rows : \A o \in rows : m.id <= o.id
         IN  <<first>> \o InRowOrder(rows \ {first})

----------------------------------------------------------------------------
(* services/market: discovery *)

\* parseTokenIds were it content with one token id.
parseTokenIdsAtLeastOne(gm) ==
    IF gm.clobTokenIds.ok /\ Len(gm.clobTokenIds.ids) >= 1
    THEN <<gm.clobTokenIds.ids[1],
           IF Len(gm.clobTokenIds.ids) >= 2 THEN gm.clobTokenIds.ids[2] ELSE Null>>
    ELSE <<>>

parseTokenIds(gm) ==
    IF gm.clobTokenIds.ok /\ Len(gm.clobTokenIds.ids) >= 2
    THEN <<gm.clobTokenIds.ids[1], gm.clobTokenIds.ids[2]>>
    ELSE <<>>

\* The row were hourEnd computed from the start instead of copied.
newMarketWholeHour(id, asset, gm, tokenIds, t) ==
    [id             |-> id,
     conditionId    |-> gm.conditionId,
     tokenIdUp      |-> tokenIds[1],
     tokenIdDown    |-> tokenIds[2],
     asset          |-> asset,
     eventStartTime |-> gm.eventStartTime,
     hourStart      |-> gm.eventStartTime,
     hourEnd        |-> gm.eventStartTime + HourMinutes,
     outcome        |-> Null,
     slug           |-> gm.slug,
     createdAt      |-> t,
     updatedAt      |-> t]

newMarket(id, asset, gm, tokenIds, t) ==
    [id             |-> id,
     conditionId    |-> gm.conditionId,
     tokenIdUp      |-> tokenIds[1],
     tokenIdDown    |-> tokenIds[2],
     asset          |-> asset,
     eventStartTime |-> gm.eventStartTime,
     hourStart      |-> gm.eventStartTime,
     hourEnd        |-> gm.endDate,
     outcome        |-> Null,
     slug           |-> gm.slug,
     createdAt      |-> t,
     updatedAt      |-> t]

\* An invocation of discoverNewMarkets: at asset a, slug j of the slugs
\* generated from hour h; found holds the ids of allNewMarkets.
IdleDisc == [pc |-> "idle", a |-> 0, j |-> 0, h |-> 0, found |-> <<>>]

DiscSlug(d) == generateMarketSlug(slugPrefix(ASSETS[d.a]), targetDate(d.h, d.j))

\* The loops were there no lookup in the store before a request.
discoverFromNoLookup(rows, a, j, h, found) ==
    IF a > Len(ASSETS) \/ (j > 2 /\ a + 1 > Len(ASSETS))
    THEN [pc |-> "done", a |-> Len(ASSETS) + 1, j |-> 1, h |-> 0, found |-> found]
    ELSE IF j > 2
    THEN [pc |-> "await", a |-> a + 1, j |-> 1, h |-> currentHour(now), found |-> found]
    ELSE [pc |-> "await", a |-> a, j |-> j, h |-> h, found |-> found]

\* The loops of discoverNewMarkets and discoverMarketsForAsset from asset a,
\* slug j on, up to the next data-source request: slugs the store knows are
\* skipped; the slugs of an asset are generated when its turn comes.
RECURSIVE discoverFrom(_, _, _, _, _)
discoverFrom(rows, a, j, h, found) ==
    IF a > Len(ASSETS)
    THEN [pc |-> "done", a |-> a, j |-> 1, h |-> 0, found |-> found]
    ELSE IF j > 2
    THEN discoverFrom(rows, a + 1, 1, currentHour(now), found)
    ELSE IF getMarketBySlug(rows,
                generateUpcomingMarketSlugs(slugPrefix(ASSETS[a]), 2, h)[j]) # {}
    THEN discoverFrom(rows, a, j + 1, h, found)
    ELSE [pc |-> "await", a |-> a, j |-> j, h |-> h, found |-> found]

\* The slug loop were a failure to end the whole run.
discoverCatchAbort(rows, d) ==
    [pc |-> "done", a |-> Len(ASSETS) + 1, j |-> 1, h |-> 0, found |-> d.found]

\* A continue, or the catch of the slug loop: on with the next slug.
discoverCatch(rows, d) == discoverFrom(rows, d.a, d.j + 1, d.h, d.found)

\* The place of a run in the slugs of all assets, from 1.
posOf(d) == 2 * (d.a - 1) + d.j

\* logger.debug(`${slug}: already exists`), once for each slug between place
\* `from` and the place of d: the slugs the loops have passed over.
alreadyExists(from, d) ==
    [i \in 1..(posOf(d) - from - 1) |-> <<"debug", "already exists">>]

\* runDiscoveryJob fires: discoverNewMarkets up to its first request.
DiscStart(r) ==
    /\ main = "running"
    /\ disc[r].pc = "idle"
    /\ disc' = [disc EXCEPT ![r] = discoverFrom(markets, 1, 1, currentHour(now), <<>>)]
    /\ log' = alreadyExists(0, disc'[r])
    /\ UNCHANGED <<now, markets, nextId, res, out, settled, listed, main, snapshots, snap, rt, sl>>

\* The body of the slug loop once the request has come back with `got`.  The
\* uuid of a market the store refuses is never seen, so nextId stays.
discoverStep(r, got) ==
    LET d == disc[r]
        tokenIds == parseTokenIds(got.gm)
        market == newMarket(nextId, ASSETS[d.a], got.gm, tokenIds, now)
    IN  IF got.kind = "null"
        THEN /\ markets' = markets
             /\ nextId' = nextId
             /\ disc' = [disc EXCEPT ![r] = discoverCatch(markets, d)]
             /\ log' = got.lines \o alreadyExists(posOf(d), disc'[r])
        ELSE IF tokenIds = <<>>
        THEN /\ markets' = markets
             /\ nextId' = nextId
             /\ disc' = [disc EXCEPT ![r] = discoverCatch(markets, d)]
             /\ log' = (IF got.gm.clobTokenIds.ok THEN <<>>
                        ELSE <<<<"error", "failed to parse token IDs">>>>)
                       \o <<<<"warn", "failed to parse token IDs">>>>
                       \o alreadyExists(posOf(d), disc'[r])
        ELSE IF upsertThrows(markets, snapshots, market)
        THEN /\ markets' = markets
             /\ nextId' = nextId
             /\ disc' = [disc EXCEPT ![r] = discoverCatch(markets, d)]
             /\ log' = <<<<"error", "error">>>> \o alreadyExists(posOf(d), disc'[r])
        ELSE /\ markets' = upsertMarket(markets, market)
             /\ nextId' = nextId + 1
             /\ disc' = [disc EXCEPT ![r] =
                    discoverFrom(upsertMarket(markets, market), d.a, d.j + 1, d.h,
                                 Append(d.found, market.id))]
             /\ log' = alreadyExists(posOf(d), disc'[r])

\* polymarket.getMarketBySlug(slug) of a discovery returns.
DiscReply(r, f) ==
    /\ alive(main)
    /\ disc[r].pc = "await"
    /\ f \in Fetch(DiscSlug(disc[r]))
    /\ f.kind = "body" => nextId <= MaxId
    /\ discoverStep(r, polyGetMarketBySlug(DiscSlug(disc[r]), f))
    /\ UNCHANGED <<now, res, out, settled, listed, main, snapshots, snap, rt, sl>>

DiscReplyAny(r) ==
    /\ disc[r].pc = "await"
    /\ \E f \in Fetch(DiscSlug(disc[r])) : DiscReply(r, f)

\* discoverNewMarkets has returned and runDiscoveryJob ends.
DiscEnd(r) ==
    /\ main = "running"
    /\ disc[r].pc = "done"
    /\ disc' = [disc EXCEPT ![r] = IdleDisc]
    /\ log' = <<>>
    /\ UNCHANGED <<now, markets, nextId, res, out, settled, listed, main, snapshots, snap, rt, sl>>


----------------------------------------------------------------------------
(* services/market: resolution *)

\* Not in the sources at hand; after the specification: "markets whose
\* outcome is unset and whose hourEnd has already passed".
getPendingResolutionMarkets(rows, t) ==
    {m \in rows : m.outcome = Null /\ m.hourEnd <= t}

Threshold == 90

\* determineOutcome were the Down price looked at first.
determineOutcomeDownFirst(gm) ==
    IF ~gm.outcomePrices.ok THEN Null
    ELSE IF gm.outcomePrices.p[2] > Threshold THEN "DOWN"
    ELSE IF gm.outcomePrices.p[1] > Threshold THEN "UP"
    ELSE Null

determineOutcome(gm) ==
    IF ~gm.outcomePrices.ok THEN Null
    ELSE IF gm.outcomePrices.p[1] > Threshold THEN "UP"
    ELSE IF gm.outcomePrices.p[2] > Threshold THEN "DOWN"
    ELSE Null

\* An invocation of checkResolutions: at market k of list.
IdleRes == [pc |-> "idle", list |-> <<>>, k |-> 0]

resolveFrom(list, k) ==
    IF k > Len(list)
    THEN [pc |-> "done", list |-> list, k |-> k]
    ELSE [pc |-> "await", list |-> list, k |-> k]

\* runResolutionWatchJob fires: checkResolutions up to its first request.
ResStart(r) ==
    /\ main = "running"
    /\ res[r].pc = "idle"
    /\ res' = [res EXCEPT ![r] =
                 resolveFrom(InRowOrder(getPendingResolutionMarkets(markets, now)), 1)]
    /\ log' = <<>>
    /\ UNCHANGED <<now, markets, nextId, disc, out, settled, listed, main, snapshots, snap, rt, sl>>

\* The rows after the body of the market loop for `market`, the request
\* having come back with `got`.
resolveRows(rows, market, got, t) ==
    IF got.kind = "gm" /\ got.gm.closed /\ determineOutcome(got.gm) # Null
    THEN updateMarketOutcome(rows, market.id, determineOutcome(got.gm), t)
    ELSE rows

resolveLines(got) ==
    IF got.kind = "gm" /\ got.gm.closed /\ ~got.gm.outcomePrices.ok
    THEN <<<<"error", "failed to determine outcome">>>>
    ELSE got.lines

\* polymarket.getMarketBySlug(market.slug) of a resolution returns.
ResReply(r, f) ==
    /\ alive(main)
    /\ res[r].pc = "await"
    /\ f \in Fetch(res[r].list[res[r].k].slug)
    /\ LET market == res[r].list[res[r].k]
           got == polyGetMarketBySlug(market.slug, f)
       IN  /\ markets' = resolveRows(markets, market, got, now)
           /\ log' = resolveLines(got)
    /\ res' = [res EXCEPT ![r] = resolveFrom(res[r].list, res[r].k + 1)]
    /\ UNCHANGED <<now, nextId, disc, out, settled, listed, main, snapshots, snap, rt, sl>>

ResReplyAny(r) ==
    /\ res[r].pc = "await"
    /\ \E f \in Fetch(res[r].list[res[r].k].slug) : ResReply(r, f)

\* checkResolutions has returned and runResolutionWatchJob ends.
ResEnd(r) ==
    /\ alive(main)
    /\ res[r].pc = "done"
    /\ res' = [res EXCEPT ![r] = IdleRes]
    /\ log' = <<>>
    /\ UNCHANGED <<now, markets, nextId, disc, out, settled, listed, main, snapshots, snap, rt, sl>>

----------------------------------------------------------------------------
(* services/market-discovery: updateMarketOutcomes, the outcome check of the
   scheduler index.ts starts *)

\* An invocation of updateMarketOutcomes, begun at t: at market k of list.
IdleOut == [pc |-> "idle", list |-> <<>>, k |-> 0, t |-> 0, updated |-> 0]

\* The market loop from market k on, up to the next request: markets whose
\* hourEnd is after t are passed over.
RECURSIVE outcomesFrom(_, _, _, _)
outcomesFrom(list, k, t, updated) ==
    IF k > Len(list)
    THEN [pc |-> "done", list |-> list, k |-> k, t |-> t, updated |-> updated]
    ELSE IF list[k].hourEnd > t
    THEN outcomesFrom(list, k + 1, t, updated)
    ELSE [pc |-> "await", list |-> list, k |-> k, t |-> t, updated |-> updated]

\* runOutcomeCheckJob fires.
OutStart(r) ==
    /\ main = "running"
    /\ out[r].pc = "idle"
    /\ out' = [out EXCEPT ![r] =
                 outcomesFrom(InRowOrder(getActiveMarkets(markets, now)), 1, now, 0)]
    /\ log' = <<>>
    /\ UNCHANGED <<now, markets, nextId, disc, res, settled, listed, main, snapshots, snap, rt, sl>>

\* polymarket.getMarketBySlug(market.slug) of an outcome check returns.
OutReply(r, f) ==
    /\ alive(main)
    /\ out[r].pc = "await"
    /\ f \in Fetch(out[r].list[out[r].k].slug)
    /\ LET o == out[r]
           market == o.list[o.k]
           got == polyGetMarketBySlug(market.slug, f)
           hit == got.kind = "gm" /\ got.gm.closed /\ determineOutcome(got.gm) # Null
       IN  /\ markets' = IF hit
                         THEN updateMarketOutcome(markets, market.id,
                                                  determineOutcome(got.gm), now)
                         ELSE markets
           /\ out' = [out EXCEPT ![r] =
                        outcomesFrom(o.list, o.k + 1, o.t,
                                     IF hit THEN o.updated + 1 ELSE o.updated)]
           /\ log' = got.lines
    /\ UNCHANGED <<now, nextId, disc, res, settled, listed, main, snapshots, snap, rt, sl>>

OutReplyAny(r) ==
    /\ out[r].pc = "await"
    /\ \E f \in Fetch(out[r].list[out[r].k].slug) : OutReply(r, f)

\* updateMarketOutcomes has returned and runOutcomeCheckJob ends.
OutEnd(r) ==
    /\ alive(main)
    /\ out[r].pc = "done"
    /\ out' = [out EXCEPT ![r] = IdleOut]
    /\ log' = <<>>
    /\ UNCHANGED <<now, markets, nextId, disc, res, settled, listed, main, snapshots, snap, rt, sl>>

----------------------------------------------------------------------------
(* index.ts *)

\* main() calls discovery.discoverNewMarkets() and awaits it.
MainDiscover ==
    /\ main = "boot"
    /\ main' = "discovering"
    /\ disc' = [disc EXCEPT !["d1"] = discoverFrom(markets, 1, 1, currentHour(now), <<>>)]
    /\ log' = alreadyExists(0, disc'["d1"])
    /\ UNCHANGED <<now, markets, nextId, res, out, settled, listed, snapshots, snap, rt, sl>>

\* The initial discovery has returned: scheduler.start().
MainStart ==
    /\ main = "discovering"
    /\ disc["d1"].pc = "done"
    /\ main' = "running"
    /\ disc' = [disc EXCEPT !["d1"] = IdleDisc]
    /\ log' = <<>>
    /\ UNCHANGED <<now, markets, nextId, res, out, settled, listed, snapshots, snap, rt, sl>>

\* SIGINT or SIGTERM: shutdown() runs from its first line to process.exit(0)
\* in one turn of the event loop.  scheduler.stop() stops the jobs that
\* have been scheduled (?.stop() on those that have not), storage.close()
\* closes the store, and the process is gone.
Shutdown ==
    /\ alive(main)
    /\ main' = "exited"
    /\ log' = <<<<"info", "Shutting down...">>, <<"info", "Scheduler stopped">>,
                <<"info", "Goodbye">>>>
    /\ UNCHANGED <<now, markets, nextId, disc, res, out, settled, listed, snapshots,
                   snap, rt, sl>>

----------------------------------------------------------------------------
(* services/market: snapshots *)

MinuteSeconds == 60

ClosingWindow == 5

\* Snapshot rows are written up to this many.
MaxSnapshots == 2

\* The snapshot fetches that may be in progress: the coarse fetch of the
\* active markets and the last-minute fetch of the closing ones.
SnapRuns == {"f1", "c1"}

\* What the four reads for one market may come to.  A read that fails has
\* failed at every attempt of retry.  prices: the BUY price of each token,
\* if the answer holds one; mid: the midpoint; book: the prices of the bids
\* and of the asks of the order book, in the order the venue lists them;
\* gm: the venue's record of the slug.
GoodReads ==
    [prices |-> [ok |-> TRUE, up |-> <<55>>, down |-> <<45>>],
     mid    |-> [ok |-> TRUE, v |-> <<50>>],
     book   |-> [ok |-> TRUE, bid |-> <<49>>, ask |-> <<52>>],
     gm     |-> [kind |-> "body", raw |-> Sound]]

FailedReads ==
    [prices |-> [ok |-> FALSE, up |-> <<>>, down |-> <<>>],
     mid    |-> [ok |-> FALSE, v |-> <<>>],
     book   |-> [ok |-> FALSE, bid |-> <<>>, ask |-> <<>>],
     gm     |-> [kind |-> "throw", raw |-> Sound]]

SnapAnswers ==
    {GoodReads, FailedReads,
     [GoodReads EXCEPT !.prices = FailedReads.prices],
     [GoodReads EXCEPT !.prices = [ok |-> TRUE, up |-> <<>>, down |-> <<>>]],
     [GoodReads EXCEPT !.prices = [ok |-> TRUE, up |-> <<55>>, down |-> <<>>]],
     [GoodReads EXCEPT !.mid = FailedReads.mid],
     [GoodReads EXCEPT !.mid = [ok |-> TRUE, v |-> <<>>]],
     [GoodReads EXCEPT !.book = FailedReads.book],
     [GoodReads EXCEPT !.book = [ok |-> TRUE, bid |-> <<>>, ask |-> <<>>]],
     [GoodReads EXCEPT !.book = [ok |-> TRUE, bid |-> <<49>>, ask |-> <<>>]],
     [GoodReads EXCEPT !.book = [ok |-> TRUE, bid |-> <<47, 49>>, ask |-> <<54, 52>>]],
     [GoodReads EXCEPT !.gm = FailedReads.gm],
     [GoodReads EXCEPT !.gm = [kind |-> "404", raw |-> Sound]],
     [GoodReads EXCEPT !.gm = [kind |-> "body", raw |-> Untraded]]}

\* polymarket.getPrices: the prices found, by token.
getPrices(read) ==
    IF read.ok THEN [up |-> read.up, down |-> read.down]
    ELSE [up |-> <<>>, down |-> <<>>]

\* polymarket.getMidpoint: a number or null (<<>>).
getMidpoint(read) == IF read.ok THEN read.v ELSE <<>>

\* polymarket.getSpread: {spread, bid, ask} or null (<<>>).
getSpread(read) ==
    IF ~read.ok THEN <<>>
    ELSE LET bestBid == IF Len(read.bid) > 0 THEN read.bid[1] ELSE 0
             bestAsk == IF Len(read.ask) > 0 THEN read.ask[1] ELSE 0
         IN  <<[spread |-> IF bestAsk > 0 /\ bestBid > 0 THEN bestAsk - bestBid ELSE 0,
                bid    |-> bestBid,
                ask    |-> bestAsk]>>

\* Math.round in place of Math.floor.
minuteOfHourRounded(t, eventStartTime) ==
    (t - eventStartTime * MinuteSeconds + MinuteSeconds \div 2) \div MinuteSeconds

\* Math.floor((now - marketStart) / 60000), now in seconds.
minuteOfHour(t, eventStartTime) ==
    (t - eventStartTime * MinuteSeconds) \div MinuteSeconds

\* The object handed to storage.insertSnapshot, its id yet to be given.
\* x ?? 0 and x ?? null.
newSnapshot(market, t, answer) ==
    LET prices == getPrices(answer.prices)
        spreadData == getSpread(answer.book)
        gm == polyGetMarketBySlug(market.slug, answer.gm)
    IN  [id             |-> 0,
         marketId       |-> market.id,
         fetchedAt      |-> t,
         minuteOfHour   |-> minuteOfHour(t, market.eventStartTime),
         upPrice        |-> numberOrZero(prices.up),
         downPrice      |-> numberOrZero(prices.down),
         upBid          |-> IF spreadData = <<>> THEN <<>> ELSE <<spreadData[1].bid>>,
         upAsk          |-> IF spreadData = <<>> THEN <<>> ELSE <<spreadData[1].ask>>,
         spread         |-> IF spreadData = <<>> THEN <<>> ELSE <<spreadData[1].spread>>,
         midpoint       |-> getMidpoint(answer.mid),
         lastTradePrice |-> IF gm.kind = "null" THEN <<>> ELSE <<gm.gm.lastTradePrice>>,
         volume24h      |-> IF gm.kind = "null" THEN <<>> ELSE <<gm.gm.volume24hr>>]

\* x || null
orNull(x) == IF x = <<>> \/ x[1] = 0 THEN <<>> ELSE x

\* id INTEGER PRIMARY KEY AUTOINCREMENT; no row is ever deleted.
nextSnapshotId(rows) ==
    IF rows = {} THEN 1
    ELSE 1 + (CHOOSE i \in {r.id : r \in rows} : \A r \in rows : r.id <= i)

\* A store that keeps one row for a market and an instant.
insertSnapshotReplace(rows, s) ==
    {r \in rows : r.marketId # s.marketId}
        \cup {[s EXCEPT !.id = nextSnapshotId(rows),
                        !.upBid = orNull(s.upBid),
                        !.upAsk = orNull(s.upAsk),
                        !.spread = orNull(s.spread),
                        !.midpoint = orNull(s.midpoint),
                        !.lastTradePrice = orNull(s.lastTradePrice),
                        !.volume24h = orNull(s.volume24h)]}

\* A store that writes the optional fields as they come.
insertSnapshotAsGiven(rows, s) ==
    rows \cup {[s EXCEPT !.id = nextSnapshotId(rows)]}

\* INSERT INTO snapshots, upPrice || 0 and the optional fields || null.
insertSnapshot(rows, s) ==
    rows \cup {[s EXCEPT !.id = nextSnapshotId(rows),
                         !.upBid = orNull(s.upBid),
                         !.upAsk = orNull(s.upAsk),
                         !.spread = orNull(s.spread),
                         !.midpoint = orNull(s.midpoint),
                         !.lastTradePrice = orNull(s.lastTradePrice),
                         !.volume24h = orNull(s.volume24h)]}

\* market_id TEXT NOT NULL REFERENCES markets(id): the insert fails when no
\* market row has this id.
insertSnapshotThrows(mkts, s) == \A m \in mkts : m.id # s.marketId

\* Not among the sources; after the specification: "markets whose hour ends
\* within windowMinutes of now and not yet resolved".
getClosingMarkets(rows, t, windowMinutes) ==
    {m \in rows : /\ m.outcome = Null
                  /\ t < m.hourEnd
                  /\ m.hourEnd <= t + windowMinutes}

\* An invocation of fetchActiveMarketSnapshots or
\* fetchClosingMarketSnapshots, begun at second t: at market k of list, its
\* reads sent at minute `sent`.
IdleSnap == [pc |-> "idle", list |-> <<>>, k |-> 0, t |-> 0, sent |-> 0, saved |-> 0]

snapshotsFrom(list, k, t, saved) ==
    [pc |-> IF k > Len(list) THEN "done" ELSE "await",
     list |-> list, k |-> k, t |-> t, sent |-> now, saved |-> saved]


\* The lines retry writes for the reads that failed at every attempt.
readErrors(answer) ==
    LET line == <<<<"error", "failed after MAX_RETRIES attempts">>>>
    IN  (IF answer.prices.ok THEN <<>> ELSE line)
        \o (IF answer.mid.ok THEN <<>> ELSE line)
        \o (IF answer.book.ok THEN <<>> ELSE line)
        \o (IF answer.gm.kind = "throw" THEN line ELSE <<>>)

\* runFetchJob fires: fetchActiveMarketSnapshots up to its first reads.  The
\* clock is read once, at second sec of the minute.
FetchStart(r, sec) ==
    /\ main = "running"
    /\ snap[r].pc = "idle"
    /\ snap' = [snap EXCEPT ![r] =
                  snapshotsFrom(InRowOrder(getActiveMarkets(markets, now)), 1,
                                now * MinuteSeconds + sec, 0)]
    /\ log' = <<>>
    /\ UNCHANGED <<now, markets, nextId, disc, res, out, settled, listed, main,
                   snapshots, rt, sl>>

\* runLastMinuteFetchJob fires: fetchClosingMarketSnapshots up to its first
\* reads.
ClosingStart(r, sec) ==
    /\ main = "running"
    /\ snap[r].pc = "idle"
    /\ snap' = [snap EXCEPT ![r] =
                  snapshotsFrom(InRowOrder(getClosingMarkets(markets, now, ClosingWindow)),
                                1, now * MinuteSeconds + sec, 0)]
    /\ log' = <<>>
    /\ UNCHANGED <<now, markets, nextId, disc, res, out, settled, listed, main,
                   snapshots, rt, sl>>

\* The fetch as the insert throws: the loop has no catch, so the error
\* leaves the fetch and is caught by the job, the markets from k on unread.
snapshotsThrow(o) == [o EXCEPT !.pc = "done"]

\* The four reads of Promise.all have come back: the snapshot is inserted
\* and the reads for the next market are sent.
SnapReply(r, answer) ==
    /\ alive(main)
    /\ snap[r].pc = "await"
    /\ answer \in SnapAnswers
    /\ Cardinality(snapshots) < MaxSnapshots
    /\ LET o == snap[r]
           market == o.list[o.k]
           s == newSnapshot(market, o.t, answer)
       IN  IF insertSnapshotThrows(markets, s)
           THEN /\ snapshots' = snapshots
                /\ snap' = [snap EXCEPT ![r] = snapshotsThrow(o)]
                /\ log' = readErrors(answer) \o <<<<"error", "Fetch job error">>>>
           ELSE /\ snapshots' = insertSnapshot(snapshots, s)
                /\ snap' = [snap EXCEPT ![r] =
                              snapshotsFrom(o.list, o.k + 1, o.t, o.saved + 1)]
                /\ log' = readErrors(answer)
    /\ UNCHANGED <<now, markets, nextId, disc, res, out, settled, listed, main, rt, sl>>

SnapReplyAny(r) == \E answer \in SnapAnswers : SnapReply(r, answer)

\* The fetch has returned and its job ends.
SnapEnd(r) ==
    /\ alive(main)
    /\ snap[r].pc = "done"
    /\ snap' = [snap EXCEPT ![r] = IdleSnap]
    /\ log' = <<>>
    /\ UNCHANGED <<now, markets, nextId, disc, res, out, settled, listed, main,
                   snapshots, rt, sl>>

----------------------------------------------------------------------------
(* The clock and the venue *)

Tick ==
    /\ now + TickMinutes <= LastInstant
    /\ now' = now + TickMinutes
    /\ log' = <<>>
    /\ UNCHANGED <<markets, nextId, disc, res, out, settled, listed, main, snapshots, snap, rt, sl>>

\* The venue closes the market of a tracked slug whose hour is over and
\* settles it Up: from now on it answers this slug with nothing else.
VenueSettle(slug) ==
    /\ slug \notin settled
    /\ \E m \in markets : m.slug = slug /\ m.hourEnd <= now
    /\ settled' = settled \cup {slug}
    /\ log' = <<>>
    /\ UNCHANGED <<now, markets, nextId, disc, res, out, listed, main, snapshots, snap, rt, sl>>

----------------------------------------------------------------------------
(* The discovery job, its invocations overlapping *)

Init ==
    /\ now = TickMinutes
    /\ markets = {}
    /\ nextId = 1
    /\ disc = [r \in DiscRuns |-> IdleDisc]
    /\ res = [r \in ResRuns |-> IdleRes]
    /\ out = [r \in OutRuns |-> IdleOut]
    /\ settled = {}
    /\ listed = {"BTC"}
    /\ main = "running"
    /\ log = <<>>
    /\ snapshots = {}
    /\ snap = [r \in SnapRuns |-> IdleSnap]
    /\ rt = IdleRetry
    /\ sl = IdleSlug

Next ==
    \/ Tick
    \/ \E r \in DiscRuns : DiscStart(r)
    \/ \E r \in DiscRuns : DiscReplyAny(r)
    \/ \E r \in DiscRuns : DiscEnd(r)

Spec == Init /\ [][Next]_vars

----------------------------------------------------------------------------
(* The resolution watch, its invocations overlapping, beside a discovery *)

NextResolution ==
    \/ Tick
    \/ DiscStart("d1")
    \/ DiscReplyAny("d1")
    \/ DiscEnd("d1")
    \/ \E r \in ResRuns : ResStart(r)
    \/ \E r \in ResRuns : ResReplyAny(r)
    \/ \E r \in ResRuns : ResEnd(r)

SpecResolution == Init /\ [][NextResolution]_vars

----------------------------------------------------------------------------
(* The program as index.ts wires it *)

InitWired ==
    /\ now = TickMinutes
    /\ markets = {}
    /\ nextId = 1
    /\ disc = [r \in DiscRuns |-> IdleDisc]
    /\ res = [r \in ResRuns |-> IdleRes]
    /\ out = [r \in OutRuns |-> IdleOut]
    /\ settled = {}
    /\ listed = {"BTC"}
    /\ main = "boot"
    /\ log = <<>>
    /\ snapshots = {}
    /\ snap = [r \in SnapRuns |-> IdleSnap]
    /\ rt = IdleRetry
    /\ sl = IdleSlug

NextWired ==
    \/ Tick
    \/ MainDiscover
    \/ MainStart
    \/ DiscStart("d1")
    \/ DiscReplyAny("d1")
    \/ DiscEnd("d1")
    \/ OutStart("o1")
    \/ OutReplyAny("o1")
    \/ OutEnd("o1")
    \/ \E a \in listed, t \in HourStarts : VenueSettle(generateMarketSlug(slugPrefix(a), t))

\* node-cron keeps firing the jobs, a request comes to an end, the clock
\* moves on.
FairWired ==
    /\ WF_vars(Tick)
    /\ WF_vars(MainDiscover)
    /\ WF_vars(MainStart)
    /\ WF_vars(DiscStart("d1"))
    /\ WF_vars(DiscReplyAny("d1"))
    /\ WF_vars(DiscEnd("d1"))
    /\ WF_vars(OutStart("o1"))
    /\ WF_vars(OutReplyAny("o1"))
    /\ WF_vars(OutEnd("o1"))

SpecWired == InitWired /\ [][NextWired]_vars /\ FairWired

----------------------------------------------------------------------------
(* The snapshot fetches over the store a discovery has left *)

\* The market discovery persists for the current-hour slug of an asset when
\* the venue answers with its sound record.
discovered(id, asset, t) ==
    LET gm == parseGammaMarket(generateMarketSlug(slugPrefix(asset), currentHour(t)), Sound)
    IN  newMarket(id, asset, gm, parseTokenIds(gm), t)

\* The fetches begin half past the hour or three minutes before its end.
InitSnapshot ==
    /\ now \in {TickMinutes, HourMinutes - 3}
    /\ markets \in {{},
                    {discovered(1, "BTC", TickMinutes)},
                    {discovered(1, "BTC", TickMinutes), discovered(2, "ETH", TickMinutes)}}
    /\ nextId = Cardinality(markets) + 1
    /\ disc = [r \in DiscRuns |-> IdleDisc]
    /\ res = [r \in ResRuns |-> IdleRes]
    /\ out = [r \in OutRuns |-> IdleOut]
    /\ settled = {}
    /\ listed = {"BTC", "ETH"}
    /\ main = "running"
    /\ log = <<>>
    /\ snapshots = {}
    /\ snap = [r \in SnapRuns |-> IdleSnap]
    /\ rt = IdleRetry
    /\ sl = IdleSlug

NextSnapshot ==
    \/ Tick
    \/ \E sec \in {0, MinuteSeconds - 1} : FetchStart("f1", sec)
    \/ \E sec \in {0, MinuteSeconds - 1} : ClosingStart("c1", sec)
    \/ \E r \in SnapRuns : SnapReplyAny(r)
    \/ \E r \in SnapRuns : SnapEnd(r)

SpecSnapshot == InitSnapshot /\ [][NextSnapshot]_vars

----------------------------------------------------------------------------
(* The snapshot fetches beside a resolution check *)

NextLifecycle ==
    \/ Tick
    \/ FetchStart("f1", 0)
    \/ \E answer \in {GoodReads, FailedReads} : SnapReply("f1", answer)
    \/ SnapEnd("f1")
    \/ ResStart("r1")
    \/ ResReplyAny("r1")
    \/ ResEnd("r1")

SpecLifecycle == InitSnapshot /\ [][NextLifecycle]_vars

----------------------------------------------------------------------------
(* index.ts with a termination signal at any moment *)

NextShutdown ==
    \/ Tick
    \/ MainDiscover
    \/ MainStart
    \/ Shutdown
    \/ DiscStart("d1")
    \/ DiscReplyAny("d1")
    \/ DiscEnd("d1")
    \/ OutStart("o1")
    \/ OutReplyAny("o1")
    \/ OutEnd("o1")

SpecShutdown == InitWired /\ [][NextShutdown]_vars

----------------------------------------------------------------------------
(* Overlapping discoveries beside a snapshot fetch *)

\* Two invocations of the discovery job, each fired once, and the coarse
\* fetch.  The venue lists both assets and answers with the sound record or
\* a 404; the uuids drawn are 0, 1 and 2.
InitIntegrity ==
    /\ now = TickMinutes
    /\ markets = {}
    /\ nextId = 0
    /\ disc = [r \in DiscRuns |-> IdleDisc]
    /\ res = [r \in ResRuns |-> IdleRes]
    /\ out = [r \in OutRuns |-> IdleOut]
    /\ settled = {}
    /\ listed = {"BTC", "ETH"}
    /\ main = "running"
    /\ log = <<>>
    /\ snapshots = {}
    /\ snap = [r \in SnapRuns |-> IdleSnap]
    /\ rt = IdleRetry
    /\ sl = IdleSlug

SoundAnswers == {[kind |-> "404"], [kind |-> "body", raw |-> Sound]}

NextIntegrity ==
    \/ \E r \in DiscRuns : DiscStart(r)
    \/ \E r \in DiscRuns : \E f \in SoundAnswers : DiscReply(r, f)
    \/ FetchStart("f1", 0)
    \/ SnapReply("f1", GoodReads)
    \/ SnapEnd("f1")

SpecIntegrity == InitIntegrity /\ [][NextIntegrity]_vars

----------------------------------------------------------------------------
(* PolymarketService.retry, call after call *)

NextRetry ==
    \/ \E label \in RetryLabels : RetryCall(label)
    \/ \E v \in RetryValues : RetryResolve(v)
    \/ \E e \in RetryErrors : RetryThrow(e)
    \/ RetryDelay
    \/ RetryReturn

SpecRetry == Init /\ [][NextRetry]_vars

----------------------------------------------------------------------------
(* The slug utilities over the day daylight saving time ends and over the
   evening the program starts *)

MaxSlugs == 3

\* Every half hour from November 1, 00:00 to 11:30 New York time and of the
\* two hours from instant 0, and every hour from 1am to 8am New York time
\* of March 8.
SlugInstants ==
    {FallBack - 2 * HourMinutes + k * TickMinutes : k \in 0..25}
        \cup {k * TickMinutes : k \in 0..3}
        \cup {SpringForward - HourMinutes + k * HourMinutes : k \in 0..6}

\* The slugs handed to parseSlugDate: well formed and not, of the days the
\* clocks change and of the day of instant 0.
SlugInputs ==
    {<<slugPrefix(ASSETS[1]), m, d, h, ap, tz>> :
        m \in {"november", "march", "nov", "brumaire", "Nov", "11"},
        d \in {1, StartET.day, 8}, h \in 0..13,
        ap \in {"am", "pm", "xm"}, tz \in {"et", "utc"}}
      \cup {<<slugPrefix(ASSETS[1]), StartET.month, StartET.day>>}

InitSlug ==
    /\ now = TickMinutes
    /\ markets = {}
    /\ nextId = 1
    /\ disc = [r \in DiscRuns |-> IdleDisc]
    /\ res = [r \in ResRuns |-> IdleRes]
    /\ out = [r \in OutRuns |-> IdleOut]
    /\ settled = {}
    /\ listed = {"BTC"}
    /\ main = "running"
    /\ log = <<>>
    /\ snapshots = {}
    /\ snap = [r \in SnapRuns |-> IdleSnap]
    /\ rt = IdleRetry
    /\ sl \in {[IdleSlug EXCEPT !.pc = "input", !.zone = z,
                                !.prefix = slugPrefix(ASSETS[a]), !.t = t, !.n = n] :
                   z \in Zones, a \in 1..Len(ASSETS), t \in SlugInstants,
                   n \in 1..MaxSlugs}
               \cup {[IdleSlug EXCEPT !.pc = "slug", !.zone = z, !.slug = s] :
                         z \in Zones, s \in SlugInputs}

NextSlug ==
    \/ SlugRoundTrip
    \/ SlugDecode
    \/ SlugUpcoming

SpecSlug == InitSlug /\ [][NextSlug]_vars

----------------------------------------------------------------------------
(* Properties *)

\* C1: once the market of a condition id has outcome UP or DOWN, no step
\* changes that outcome to the other value or back to unset.
C1_OutcomeWriteOnce ==
    [][\A m \in markets : m.outcome # Null =>
          \A m2 \in markets' : m2.conditionId = m.conditionId =>
                                   m2.outcome = m.outcome]_vars

\* C2: as index.ts wires the program, a persisted market with
\* hourEnd = hourStart + 1h whose hour is over, whose outcome is unset and
\* whose slug the venue has settled Up for good, eventually has outcome UP.
C2_ResolutionEventually ==
    \A i \in 1..MaxId :
        (\E m \in markets : /\ m.id = i
                            /\ m.hourEnd = m.hourStart + HourMinutes
                            /\ m.hourEnd <= now
                            /\ m.outcome = Null
                            /\ m.slug \in settled)
        ~> (\E m \in markets : m.id = i /\ m.outcome = "UP")

\* C3: when the answer to a resolution's request arrives, the market's
\* outcome becomes UP if the venue record is closed and its Up price is
\* above 0.9, else DOWN if it is closed and its Down price is above 0.9, and
\* no other row changes; in every other case (not closed, no record,
\* unparseable prices, no price above 0.9) the table is left as it was.
C3_ResolutionOnlyWhenClosedAndConfident ==
    [][\A r \in ResRuns : res'[r] # res[r] =>
          \A f \in Answers : ResReply(r, f) =>
          LET market == res[r].list[res[r].k]
              prices == f.kind = "body" /\ f.raw.closed /\ f.raw.outcomePrices.ok
              up == prices /\ f.raw.outcomePrices.p[1] > Threshold
              down == prices /\ ~up /\ f.raw.outcomePrices.p[2] > Threshold
          IN  IF up \/ down
              THEN /\ \A m \in markets : m.id # market.id => m \in markets'
                   /\ \A m \in markets' : m.id # market.id => m \in markets
                   /\ \A m \in markets' : m.id = market.id =>
                          m.outcome = IF up THEN "UP" ELSE "DOWN"
              ELSE markets' = markets]_vars

\* A resolution has set an outcome to DOWN.
C3_Witness == \E m \in markets : m.outcome = "DOWN"

\* C4: whenever a discovery run sends a request for a slug, the store holds
\* no market of that slug at that moment.
C4_NoRequestForKnownSlug ==
    [][\A r \in DiscRuns :
          (disc'[r].pc = "await" /\ disc'[r] # disc[r]) =>
              getMarketBySlug(markets', DiscSlug(disc'[r])) = {}]_vars

\* A run has just passed over a slug the store knows and waits for the
\* answer about a later one.
C4_Witness ==
    /\ \E i \in DOMAIN log : log[i] = <<"debug", "already exists">>
    /\ \E r \in DiscRuns : disc[r].pc = "await"

\* C5: a market that a step newly persists has a condition id that no row
\* of the store had before: a venue market is persisted at most once.
C5_PersistedOnce ==
    [][\A m \in markets' :
          (\A o \in markets : o.id # m.id) =>
              (\A o \in markets : o.conditionId # m.conditionId)]_vars

\* C6: every row of the store is in the store after any step, under the
\* same id and with all its fields but outcome and updatedAt as they were.
C6_NeverDeletedImmutable ==
    [][\A m \in markets : \E m2 \in markets' :
          /\ m2.id = m.id
          /\ m2.conditionId = m.conditionId
          /\ m2.tokenIdUp = m.tokenIdUp
          /\ m2.tokenIdDown = m.tokenIdDown
          /\ m2.asset = m.asset
          /\ m2.slug = m.slug
          /\ m2.eventStartTime = m.eventStartTime
          /\ m2.hourStart = m.hourStart
          /\ m2.hourEnd = m.hourEnd
          /\ m2.createdAt = m.createdAt]_vars

\* C7: no two rows of the store share a condition id.
C7_ConditionIdUnique ==
    \A m1 \in markets : \A m2 \in markets :
        m1.conditionId = m2.conditionId => m1 = m2

\* Two discoveries have raced on a slug: both uuids are spent on it and the
\* second market has taken the place of the first.
C7_Witness ==
    /\ nextId = 3
    /\ Cardinality(markets) = 1
    /\ \E m \in markets : m.id = 2

\* C8, as the specification words it: every row has hourEnd one hour after
\* hourStart.
C8_WholeHour == \A m \in markets : m.hourEnd = m.hourStart + HourMinutes

\* C8: a row discovery persists has the parsed venue record's eventStartTime
\* as hourStart and its endDate as hourEnd, so hourEnd is one hour after
\* hourStart exactly when the venue record's endDate is one hour after its
\* event start.
C8_HoursCopiedFromVenue ==
    [][\A r \in DiscRuns : disc'[r] # disc[r] =>
          \A f \in Answers : DiscReply(r, f) =>
          \A m \in markets' : (\A o \in markets : o.id # m.id) =>
              /\ f.kind = "body"
              /\ LET gm == parseGammaMarket(DiscSlug(disc[r]), f.raw)
                 IN  /\ m.hourStart = gm.eventStartTime
                     /\ m.hourEnd = gm.endDate
                     /\ (m.hourEnd = m.hourStart + HourMinutes)
                            <=> (gm.endDate = gm.eventStartTime + HourMinutes)]_vars

\* A row whose venue record ended half an hour after its event start.
C8_Witness == \E m \in markets : m.hourEnd = m.hourStart + TickMinutes

C10_FailureIsolation ==
    [][\A r \in DiscRuns : disc'[r] # disc[r] =>
          \A f \in Answers : DiscReply(r, f) =>
          LET d == disc[r]
              d2 == disc'[r]
              slugAt(p) ==
                  LET a == (p - 1) \div 2 + 1
                  IN  generateMarketSlug(slugPrefix(ASSETS[a]),
                          targetDate(IF a = d.a THEN d.h ELSE currentHour(now),
                                     ((p - 1) % 2) + 1))
          IN  /\ d2.pc \in {"await", "done"}
              /\ posOf(d2) > posOf(d)
              /\ d2.pc = "done" <=> posOf(d2) = 2 * Len(ASSETS) + 1
              /\ \A p \in (posOf(d) + 1)..(posOf(d2) - 1) :
                     getMarketBySlug(markets', slugAt(p)) # {}]_vars

\* The only run in progress has just logged an error and waits for the
\* answer about a slug of the last asset.
C10_Witness ==
    /\ \E i \in DOMAIN log : log[i][1] = "error"
    /\ \E r \in DiscRuns : /\ disc[r].pc = "await"
                           /\ disc[r].a = Len(ASSETS)
                           /\ \A o \in DiscRuns \ {r} : disc[o].pc = "idle"

\* C11: an outcome check that begins considers every market whose outcome
\* is unset and whose hourEnd has passed: each is in the list the run goes
\* through and is not passed over.
C11_ConsidersEveryDueMarket ==
    [][\A r \in OutRuns : (out[r].pc = "idle" /\ out'[r].pc # "idle") =>
          \A m \in markets : (m.outcome = Null /\ m.hourEnd <= now) =>
              \E k \in 1..Len(out'[r].list) :
                  /\ out'[r].list[k].id = m.id
                  /\ out'[r].list[k].hourEnd <= out'[r].t]_vars

\* No market has its outcome unset and the clock within
\* [eventStartTime, eventStartTime + 1h).
NoActiveMarket ==
    ~\E m \in markets : /\ m.outcome = Null
                        /\ m.eventStartTime <= now
                        /\ now < m.eventStartTime + HourMinutes

\* C12: a fetch of the active markets that begins while no market is active
\* has returned 0 at once: no read is sent, no snapshot is written, nothing
\* is logged as an error; and all that is left of it is the end of its job,
\* which writes no snapshot either.
C12_NoActiveNoOp ==
    [][/\ \A sec \in {0, MinuteSeconds - 1} :
              (FetchStart("f1", sec) /\ NoActiveMarket) =>
                  /\ snap'["f1"].pc = "done"
                  /\ snap'["f1"].saved = 0
                  /\ snapshots' = snapshots
                  /\ log' = <<>>
       /\ (/\ snap["f1"].pc = "done"
           /\ snap["f1"].list = <<>>
           /\ snap'["f1"] # snap["f1"]) =>
              /\ snap'["f1"] = IdleSnap
              /\ snapshots' = snapshots]_vars

\* The store holds a market, and a fetch of the active markets has returned
\* over an empty list.
C12_Witness ==
    /\ markets # {}
    /\ snap["f1"].pc = "done"
    /\ snap["f1"].list = <<>>
    /\ snap["f1"].saved = 0

\* C13: when all the reads for a market have failed at every attempt, the
\* run writes no snapshot row for that market.
C13_FailedReadsWriteNoRow ==
    [][\A r \in SnapRuns : snap'[r] # snap[r] =>
          (SnapReply(r, FailedReads) =>
              ~\E s \in snapshots' \ snapshots :
                  s.marketId = snap[r].list[snap[r].k].id)]_vars

\* C14: the snapshot rows only grow: every step keeps every row as it was;
\* the reads of a fetch, whatever they come to, add exactly one row, under
\* a new id, for the market the fetch is at, and move the fetch to its next
\* market; a fetch that has returned has written one row for each market of
\* its list.
C14_SnapshotsAppendOnly ==
    [][/\ snapshots \subseteq snapshots'
       /\ \A r \in SnapRuns : snap'[r] # snap[r] =>
              /\ \A answer \in SnapAnswers : SnapReply(r, answer) =>
                     /\ \E s \in snapshots' \ snapshots :
                            /\ snapshots' = snapshots \cup {s}
                            /\ s.marketId = snap[r].list[snap[r].k].id
                            /\ \A old \in snapshots : old.id # s.id
                     /\ snap'[r].k = snap[r].k + 1
                     /\ snap'[r].saved = snap[r].saved + 1
                     /\ snap'[r].list = snap[r].list
              /\ snap'[r].pc = "done" =>
                     /\ snap'[r].saved = Len(snap'[r].list)
                     /\ snap'[r].k = Len(snap'[r].list) + 1
                     /\ \A i, j \in 1..Len(snap'[r].list) :
                            i # j => snap'[r].list[i].id # snap'[r].list[j].id]_vars

\* A fetch has returned after writing a row, and the store holds two rows of
\* one market: the later fetch has left the earlier row in place.
C14_Witness ==
    /\ \E r \in SnapRuns : snap[r].pc = "done" /\ snap[r].saved >= 1
    /\ \E s1, s2 \in snapshots : s1.id # s2.id /\ s1.marketId = s2.marketId

\* C15: every snapshot row carries the whole minutes from its market's
\* eventStartTime to the instant the row gives as its capture, rounded down
\* and not clamped; for a market within its hour at that instant the value
\* is from 0 to 59.
C15_MinuteOfHour ==
    \A s \in snapshots :
        \E m \in markets :
            /\ m.id = s.marketId
            /\ LET elapsed == s.fetchedAt - m.eventStartTime * MinuteSeconds
               IN  /\ s.minuteOfHour * MinuteSeconds <= elapsed
                   /\ elapsed < (s.minuteOfHour + 1) * MinuteSeconds
                   /\ (0 <= elapsed /\ elapsed < HourMinutes * MinuteSeconds) =>
                          s.minuteOfHour \in 0..(HourMinutes - 1)

\* A row captured 57 minutes and 59 seconds into its market's hour carries
\* 57.
C15_Witness ==
    \E s \in snapshots :
        \E m \in markets :
            /\ m.id = s.marketId
            /\ s.fetchedAt - m.eventStartTime * MinuteSeconds
                   = (HourMinutes - 3) * MinuteSeconds + MinuteSeconds - 1
            /\ s.minuteOfHour = HourMinutes - 3

\* C16: whatever the reads for a market come to, the row written holds
\* no value, and not zero, in each of bid, ask, spread, midpoint, last trade
\* price and 24h volume for which the data source gave none, and holds 0 as
\* the up price and as the down price when the data source gave no price for
\* that token, and the price it gave otherwise.
C16_AbsentNotZero ==
    [][\A r \in SnapRuns : snap'[r] # snap[r] =>
          \A answer \in SnapAnswers : SnapReply(r, answer) =>
              \A s \in snapshots' \ snapshots :
                  /\ (~answer.book.ok \/ answer.book.bid = <<>>) => s.upBid = <<>>
                  /\ (~answer.book.ok \/ answer.book.ask = <<>>) => s.upAsk = <<>>
                  /\ ~answer.book.ok => s.spread = <<>>
                  /\ (~answer.mid.ok \/ answer.mid.v = <<>>) => s.midpoint = <<>>
                  /\ (answer.gm.kind # "body" \/ answer.gm.raw.lastTradePrice = <<>>) =>
                         s.lastTradePrice = <<>>
                  /\ (answer.gm.kind # "body" \/ answer.gm.raw.volume24hr = <<>>) =>
                         s.volume24h = <<>>
                  /\ \A f \in {"upBid", "upAsk", "spread", "midpoint",
                               "lastTradePrice", "volume24h"} : s[f] # <<0>>
                  /\ s.upPrice = IF answer.prices.ok /\ answer.prices.up # <<>>
                                 THEN answer.prices.up[1] ELSE 0
                  /\ s.downPrice = IF answer.prices.ok /\ answer.prices.down # <<>>
                                   THEN answer.prices.down[1] ELSE 0]_vars

\* A row with an up price and no down price, stored as 0, and a row whose
\* order book had a bid and no ask: the ask is absent.
C16_Witness ==
    /\ \E s \in snapshots : s.upPrice > 0 /\ s.downPrice = 0
    /\ \E s \in snapshots : s.upBid # <<>> /\ s.upAsk = <<>>

\* The attempts among the events of a call of retry.
attemptsOf(events) == {j \in DOMAIN events : events[j][1] \in {"ok", "throw"}}

\* C17: a call of retry makes at most MAX_RETRIES attempts; an attempt that
\* succeeds is its last event and its value is what the call returns; the
\* attempts and the delays alternate, so that one delay lies between two
\* consecutive attempts and none follows the last; a call returns after
\* a failed attempt only when MAX_RETRIES attempts have failed, and then it
\* returns null; it never ends otherwise than by returning.
C17_BoundedRetry ==
    /\ rt.pc \in {"idle", "try", "delay", "returned"}
    /\ Cardinality(attemptsOf(rt.events)) <= MAX_RETRIES
    /\ \A j \in DOMAIN rt.events :
           /\ (j % 2 = 1) <=> (j \in attemptsOf(rt.events))
           /\ (j % 2 = 0) <=> (rt.events[j][1] = "delay")
           /\ rt.events[j][1] = "ok" =>
                  /\ j = Len(rt.events)
                  /\ rt.pc = "returned"
                  /\ rt.result = <<rt.events[j][2]>>
    /\ rt.pc = "try" => (rt.events = <<>> \/ rt.events[Len(rt.events)][1] = "delay")
    /\ rt.pc = "delay" => rt.events[Len(rt.events)][1] = "throw"
    /\ rt.pc = "returned" =>
           /\ rt.events # <<>>
           /\ rt.events[Len(rt.events)][1] \in {"ok", "throw"}
           /\ rt.result # <<>>
           /\ rt.events[Len(rt.events)][1] = "throw" =>
                  /\ Cardinality(attemptsOf(rt.events)) = MAX_RETRIES
                  /\ rt.result = <<Null>>
    /\ rt.pc \in {"try", "delay"} => rt.result = <<>>

\* A call has returned null after three failed attempts and two delays.
C17_Witness ==
    /\ rt.pc = "returned"
    /\ rt.result = <<Null>>
    /\ Len(rt.events) = 2 * MAX_RETRIES - 1
    /\ \A j \in attemptsOf(rt.events) : rt.events[j][1] = "throw"

\* C18: at no time are two invocations of the discovery job in progress at
\* once: the trigger of a later hour, firing while the run an earlier
\* hour's trigger began is unfinished, starts no second run.
C18_NoOverlappingDiscovery ==
    \A r1, r2 \in DiscRuns :
        (disc[r1].pc # "idle" /\ disc[r2].pc # "idle" /\ disc[r1].h # disc[r2].h)
            => r1 = r2

\* C19: in a process whose zone is UTC, the slug of an instant decodes to an
\* instant, and that instant has the day and the hour of day the encoded
\* one has in America/New_York, on the day daylight saving time ends as on
\* others.
C19_SlugRoundTrip ==
    (sl.pc = "decoded" /\ sl.zone = "UTC") =>
        /\ sl.back # <<>>
        /\ etWall(sl.back[1]) = etWall(sl.t)

\* The minutes past the hour the clock of a process in the zone shows.
minutesPastHour(zone, t) ==
    IF zone = "Asia/Kolkata"
    THEN (t + HourMinutes \div 2) % HourMinutes
    ELSE t % HourMinutes

\* C20: generateUpcomingMarketSlugs(prefix, n) returns exactly n slugs, the
\* i-th, counted from 0, the slug of h + i hours, where h is the current
\* instant truncated to the top of the hour on the clock of the process: the
\* first is the slug of the current hour and each is the slug of the hour
\* after the one before.
C20_UpcomingSlugs ==
    sl.pc = "listed" =>
        /\ Len(sl.slugs) = sl.n
        /\ \E h \in (sl.t - HourMinutes + 1)..sl.t :
               /\ minutesPastHour(sl.zone, h) = 0
               /\ \A i \in 0..(sl.n - 1) :
                      sl.slugs[i + 1] = generateMarketSlug(sl.prefix, h + i * HourMinutes)

\* Three slugs have been listed from an instant half past an hour, across
\* the end of daylight saving time: the slugs of 12am, 1am and 1am.
C20_Witness ==
    /\ sl.pc = "listed"
    /\ sl.n = 3
    /\ Len(sl.slugs) = 3
    /\ sl.t % HourMinutes # 0
    /\ sl.slugs[1][4] = 12
    /\ sl.slugs[2][4] = 1
    /\ sl.slugs[3][4] = 1

\* C21: parseSlugDate returns null for every slug that is not of the form
\* <anything>-<month>-<day>-<hour><am|pm>-et, for every slug whose month is
\* none of the twelve names, and for every slug whose hour is not one of
\* 1..12.
C21_DecodeRejects ==
    sl.pc = "parsed" =>
        ((\/ Len(sl.slug) # 6
          \/ sl.slug[5] \notin {"am", "pm"}
          \/ sl.slug[6] # "et"
          \/ \A m \in 1..12 : MONTHS[m] # sl.slug[2]
          \/ sl.slug[4] \notin 1..12)
            => sl.back = <<>>)

\* C25: for every hour h of 1..12 of a slug that parseSlugDate reads, the
\* hour of day it goes on with is 0 for 12am, 12 for 12pm, h for h am and
\* h + 12 for h pm, h in 1..11.
C25_TwelveHourClock ==
    (sl.pc = "parsed" /\ sl.hour # <<>> /\ sl.slug[4] \in 1..12) =>
        sl.hour[1] = CASE sl.slug[4] = 12 /\ sl.slug[5] = "am" -> 0
                       [] sl.slug[4] = 12 /\ sl.slug[5] = "pm" -> 12
                       [] sl.slug[4] # 12 /\ sl.slug[5] = "am" -> sl.slug[4]
                       [] sl.slug[4] # 12 /\ sl.slug[5] = "pm" -> sl.slug[4] + 12

\* A slug of 12 o'clock has been read, 12am as hour 0 or 12pm as hour 12,
\* and in a process in UTC the instant returned has that hour of day in
\* New York.
C25_Witness ==
    /\ sl.pc = "parsed"
    /\ sl.hour # <<>>
    /\ \/ sl.slug[4] = 12 /\ sl.slug[5] = "am" /\ sl.hour = <<0>>
       \/ sl.slug[4] = 12 /\ sl.slug[5] = "pm" /\ sl.hour = <<12>>
    /\ sl.back # <<>>
    /\ sl.zone = "UTC" => etWall(sl.back[1]).hour = sl.hour[1]

\* C29: the slugs generateUpcomingMarketSlugs returns are pairwise distinct,
\* whatever the instant it starts from.
C29_UpcomingSlugsDistinct ==
    sl.pc = "listed" =>
        \A i, j \in 1..Len(sl.slugs) : i # j => sl.slugs[i] # sl.slugs[j]

\* The highest and the lowest of a sequence of prices.
highest(prices) == CHOOSE p \in {prices[i] : i \in DOMAIN prices} :
                       \A i \in DOMAIN prices : prices[i] <= p
lowest(prices) == CHOOSE p \in {prices[i] : i \in DOMAIN prices} :
                      \A i \in DOMAIN prices : p <= prices[i]

C26_NoSnapshotOnceResolved ==
    [][\A s \in snapshots' \ snapshots :
          \A m \in markets : m.id = s.marketId => m.outcome = Null]_vars


\* C27: every snapshot row refers to a market row that is in the store,
\* however the discoveries and the snapshot fetch interleave.
C27_ReferentialIntegrity ==
    \A s \in snapshots : \E m \in markets : m.id = s.marketId

\* A discovery has found the venue's record of a slug a second time, under
\* another uuid, while the row it would replace has a snapshot: the store
\* has refused the statement and the row and its snapshot are still there.
C27_Witness ==
    /\ log # <<>>
    /\ log[1] = <<"error", "error">>
    /\ \E s \in snapshots : \E m \in markets :
          /\ m.id = s.marketId
          /\ \E r \in DiscRuns : disc[r].pc # "idle" /\ m.id \notin
                {disc[r].found[i] : i \in DOMAIN disc[r].found}

\* C22: a snapshot fetch that has markets left after the one whose reads
\* have come back goes on to the next of them, whatever became of the
\* insert.
C22_SnapshotLoopGoesOn ==
    [][\A r \in SnapRuns :
          (snap[r].pc = "await" /\ snap'[r] # snap[r]
              /\ snap[r].k < Len(snap[r].list))
          => (snap'[r].pc = "await" /\ snap'[r].k = snap[r].k + 1)]_vars

\* The markets updateMarketOutcomes asks the venue about at t: the active
\* ones whose hourEnd is not after t.
dueForOutcome(rows, t) == {m \in getActiveMarkets(rows, t) : m.hourEnd <= t}

\* The lifecycle classes a market row is in at t.
classesOf(m, t) ==
    (IF m.outcome = Null /\ t < m.eventStartTime THEN {"Discovered"} ELSE {})
    \cup (IF m.outcome = Null /\ m.eventStartTime <= t
             /\ t < m.eventStartTime + HourMinutes THEN {"Active"} ELSE {})
    \cup (IF m.outcome = Null /\ m.hourEnd <= t THEN {"AwaitingClose"} ELSE {})
    \cup (IF m.outcome # Null THEN {"Resolved"} ELSE {})

\* C28: at every instant each market row is in exactly one lifecycle class,
\* and an unset market that has started is selected by exactly one of the
\* snapshot collector (as active) and the outcome check (as past due).
C28_LifecyclePartition ==
    \A m \in markets :
        /\ Cardinality(classesOf(m, now)) = 1
        /\ (m.outcome = Null /\ m.eventStartTime <= now)
            => ((m \in getActiveMarkets(markets, now))
                    # (m \in dueForOutcome(markets, now)))


\* C23: once the shutdown handler has run, no job invocation starts or goes
\* on and the store is neither read nor written: the rows, the uuids drawn
\* and the position of every job stay as they are.
C23_NothingAfterShutdown ==
    [][main = "exited" =>
          UNCHANGED <<main, markets, snapshots, nextId, disc, res, out, snap>>]_vars

\* The signal has come after the scheduler was started, with a request of
\* the outcome check in flight.
C23_Witness == main = "exited" /\ out["o1"].pc = "await"
====
